---- MODULE Spec2Model ----
(***************************************************************************)
(* SOFA: the DataHandler of sofa/data_processing/data_handler.py, the      *)
(* registry of inactive data points, the orientation map of the heatmap    *)
(* and the histogram threshold moves.                                      *)
(*                                                                         *)
(* numpy arrays and Python lists are sequences; a Python index i is the    *)
(* position i + 1 of the sequence.  The ids and indices held in the state  *)
(* are the 0-based numbers of the program.                                 *)
(***************************************************************************)
EXTENDS Integers, Sequences, FiniteSets, TLC

\* Bounds of the model.
MaxPoints == 4      \* grids have m * n <= MaxPoints points
HistPoints == 3     \* the channels of every value have up to HistPoints points
MaxVal == 2         \* finite channel values are 0..MaxVal
NumberOfBins == 3   \* the number of bins set in the GUI
MaxToggle == 2      \* a toggle call names at most MaxToggle linear indices
CurveLen == 3       \* a curve has CurveLen samples
MaxY == 3           \* the y values of a curve are 0..MaxY
numberOfDataPoints == 3   \* the points of a resampling grid (2000 in the source)

VARIABLES
    generalData,          \* [m, n]: the grid dimensions
    mappedIndices,        \* heatmapParameters["mappedIndices"]: [rows, cols, flat]
    sourceData,           \* channelData[channel]["sourceData"].flatten()
    heatmapData,          \* channelData[channel]["data"]: [rows, cols, flat]
    correctedCurves,      \* curveData["correctedCurves"]: one [x, y] per point
    displayedLines,       \* curveData["displayedLines"]: the colour of every line
    numberOfBins,         \* histogramParameters["numberOfBins"]
    inactiveDataPoints,   \* the Python list of inactive canonical ids
    histogramData,        \* [binValues, indexOfMinValue, indexOfMaxValue]
    displayAverage,       \* linePlotParameters["displayAverage"]
    averageData,          \* [curves, activeCurves] and the arrays of the average
    importer,             \* load_bam_ibw_data_files: [dataFiles, approachCurves,
                          \* retractCurves]
    call                  \* the last handler that ran: [op, arg, raised]

vars == <<generalData, mappedIndices, sourceData, heatmapData, correctedCurves, displayedLines,
          numberOfBins,
          inactiveDataPoints, histogramData, displayAverage, averageData,
          importer, call>>

----------------------------------------------------------------------------
\* Python and numpy primitives.

\* float("nan"): the one non-finite channel value of the model.
NaN == MaxVal + 1

isfinite(v) == v # NaN

Range(s) == {s[i] : i \in 1..Len(s)}

RECURSIVE SortedSeq(_)
SortedSeq(S) ==
    IF S = {} THEN <<>>
    ELSE LET x == CHOOSE a \in S : \A b \in S : a <= b
         IN  <<x>> \o SortedSeq(S \ {x})

\* list(set(l)) leaves the list without its dedup.
list_set_nodedup(l) == l

\* list(set(l)): the distinct elements of l.  CPython iterates a set of small
\* non-negative ints in ascending order.
list_set(l) == SortedSeq(Range(l))

\* l.remove(x): removes the first occurrence, ValueError when there is none.
list_remove(l, x) ==
    IF x \in Range(l)
    THEN LET k == CHOOSE i \in 1..Len(l) : l[i] = x /\ \A j \in 1..(i - 1) : l[j] # x
         IN  [list |-> SubSeq(l, 1, k - 1) \o SubSeq(l, k + 1, Len(l)), raised |-> "none"]
    ELSE [list |-> l, raised |-> "ValueError"]

\* np.where(cond)[0] over a flat array: the ascending 0-based indices k with P(a[k]).
np_where(a, P(_)) ==
    SelectSeq([k \in 1..Len(a) |-> k - 1], LAMBDA i : P(a[i + 1]))

\* a[i] for a flat numpy array: negative indices count from the end,
\* IndexError outside [-len, len).
np_index(a, i) ==
    IF i >= 0 /\ i < Len(a) THEN [value |-> a[i + 1], raised |-> "none"]
    ELSE IF i < 0 /\ i >= 0 - Len(a) THEN [value |-> a[Len(a) + i + 1], raised |-> "none"]
    ELSE [value |-> 0, raised |-> "IndexError"]

SeqMin(s) == CHOOSE a \in Range(s) : \A b \in Range(s) : a <= b
SeqMax(s) == CHOOSE a \in Range(s) : \A b \in Range(s) : a >= b

\* The DataHandler object: the fields the methods read and write.
self ==
    [generalData |-> generalData, mappedIndices |-> mappedIndices,
     sourceData |-> sourceData, data |-> heatmapData, correctedCurves |-> correctedCurves,
     displayedLines |-> displayedLines,
     numberOfBins |-> numberOfBins,
     inactiveDataPoints |-> inactiveDataPoints, histogramData |-> histogramData,
     displayAverage |-> displayAverage, averageData |-> averageData]

NumPoints(s) == s.generalData.m * s.generalData.n

\* The memory of the numpy arrays.  An array expression shares the buffer of
\* a stored array, "data" or "sourceData", or has a buffer of its own, "local".

\* An array that shares the buffer it was made of.
ndarray_view(buffer) == buffer

\* a.flatten(): always a copy.
ndarray_flatten(buffer) == "local"

\* a.copy()
ndarray_copy(buffer) == "local"

\* np.put(a, indices, values) writes in place: the DataHandler after the array
\* of the buffer has taken the values.
np_put(s, buffer, values) ==
    IF buffer = "data" THEN [s EXCEPT !.data.flat = values]
    ELSE IF buffer = "sourceData" THEN [s EXCEPT !.sourceData = values]
    ELSE s

----------------------------------------------------------------------------
\* Grid Index Mapper.

\* np.arange(m * n) with the column stride lost: ids repeat.
init_mapped_indices_nostride(m, n) ==
    [rows |-> m, cols |-> n, flat |-> [k \in 1..(m * n) |-> (k - 1) % n]]

\* init_mapped_indices: np.arange(m * n).reshape((m, n)).
init_mapped_indices(m, n) ==
    [rows |-> m, cols |-> n, flat |-> [k \in 1..(m * n) |-> k - 1]]

\* mappedIndices.flatten()
flatten(a) == a.flat

\* a[r, c] of the 2-dimensional array a, 0-based.
At(a, r, c) == a.flat[r * a.cols + c + 1]

\* np.rot90(a): out[i, j] = a[j, cols - 1 - i], shape (cols, rows).
Rot90(a) ==
    [rows |-> a.cols, cols |-> a.rows,
     flat |-> [k \in 1..(a.rows * a.cols) |->
                 LET i == (k - 1) \div a.rows
                     j == (k - 1) % a.rows
                 IN  At(a, j, a.cols - 1 - i)]]

\* np.fliplr(a): out[i, j] = a[i, cols - 1 - j].
FlipLR(a) ==
    [a EXCEPT !.flat = [k \in 1..(a.rows * a.cols) |->
                 LET i == (k - 1) \div a.cols
                     j == (k - 1) % a.cols
                 IN  At(a, i, a.cols - 1 - j)]]

\* np.flipud(a): out[i, j] = a[rows - 1 - i, j].
FlipUD(a) ==
    [a EXCEPT !.flat = [k \in 1..(a.rows * a.cols) |->
                 LET i == (k - 1) \div a.cols
                     j == (k - 1) % a.cols
                 IN  At(a, a.rows - 1 - i, j)]]

\* toCanonical: mappedIndices.flatten()[i].
toCanonical(map, i) == np_index(flatten(map), i).value

\* The canonical id taken for the linear index.
toLinear_unmapped(map, point) == [value |-> point, raised |-> "none"]

\* toLinear: np.where(point == mappedIndices)[0][0], IndexError when absent.
toLinear(map, point) ==
    LET hits == np_where(flatten(map), LAMBDA v : v = point)
    IN  IF Len(hits) > 0 THEN [value |-> hits[1], raised |-> "none"]
        ELSE [value |-> 0, raised |-> "IndexError"]

----------------------------------------------------------------------------
\* Active Point Registry.

\* add_inactive_data_points: append the canonical id of every new point, then
\* remove duplicates.  An IndexError leaves the ids appended so far.
add_inactive_data_points(s, newPoints) ==
    LET RECURSIVE loop(_, _)
        loop(list, k) ==
            IF k > Len(newPoints) THEN [list |-> list, raised |-> "none"]
            ELSE LET id == np_index(flatten(s.mappedIndices), newPoints[k])
                 IN  IF id.raised # "none" THEN [list |-> list, raised |-> id.raised]
                     ELSE loop(Append(list, id.value), k + 1)
        r == loop(s.inactiveDataPoints, 1)
    IN  IF r.raised # "none"
        THEN [self |-> [s EXCEPT !.inactiveDataPoints = r.list], raised |-> r.raised]
        ELSE [self |-> [s EXCEPT !.inactiveDataPoints = list_set(r.list)],
              raised |-> "none"]

\* remove_inactive_data_points: list.remove of the canonical id of every point;
\* the first id that is not in the list raises ValueError and ends the loop.
remove_inactive_data_points(s, newPoints) ==
    LET RECURSIVE loop(_, _)
        loop(list, k) ==
            IF k > Len(newPoints) THEN [list |-> list, raised |-> "none"]
            ELSE LET id == np_index(flatten(s.mappedIndices), newPoints[k])
                 IN  IF id.raised # "none" THEN [list |-> list, raised |-> id.raised]
                     ELSE LET rm == list_remove(list, id.value)
                          IN  IF rm.raised # "none" THEN rm
                              ELSE loop(rm.list, k + 1)
        r == loop(s.inactiveDataPoints, 1)
    IN  [self |-> [s EXCEPT !.inactiveDataPoints = r.list], raised |-> r.raised]

----------------------------------------------------------------------------
\* Histogram Threshold Engine.
\*
\* The bin edges of np.histogram are min + i * (max - min) / bins.  binValues
\* holds every edge multiplied by 2 * numberOfBins, which keeps the edges
\* integers; Scaled multiplies a channel value the same way before it is
\* compared with an edge.

Scaled(s, v) == 2 * s.numberOfBins * v

\* _get_histogram_data: sourceData[np.isfinite(sourceData)].flatten()
get_histogram_data(s) == SelectSeq(s.sourceData, isfinite)

\* _get_active_histogram_data: NaN put at the inactive ids, then the finite values.
get_active_histogram_data(s) ==
    LET flat == s.sourceData
        activeData == [k \in 1..Len(flat) |->
                         IF (k - 1) \in Range(s.inactiveDataPoints)
                         THEN NaN ELSE flat[k]]
    IN  SelectSeq(activeData, isfinite)

\* The binValues ax.hist returns for range=(np.min(data), np.max(data)):
\* np.linspace(first, last, bins + 1), where an empty range is widened by 0.5
\* on each side.
bin_edges(data, bins) ==
    LET lo == SeqMin(data)
        hi == SeqMax(data)
        first2 == IF lo = hi THEN 2 * lo - 1 ELSE 2 * lo
        last2 == IF lo = hi THEN 2 * hi + 1 ELSE 2 * hi
    IN  [k \in 1..(bins + 1) |-> bins * first2 + (k - 1) * (last2 - first2)]

\* np.where(binValues >= x)[0][-1]: the comparison of the upper bound used for
\* the lower bound.
index_of_min_value_ge(binValues, x) ==
    LET hits == np_where(binValues, LAMBDA e : e >= x)
    IN  IF Len(hits) > 0 THEN [value |-> hits[Len(hits)], raised |-> "none"]
        ELSE [value |-> 0, raised |-> "IndexError"]

\* np.where(binValues <= x)[0][-1]
index_of_min_value(binValues, x) ==
    LET hits == np_where(binValues, LAMBDA e : e <= x)
    IN  IF Len(hits) > 0 THEN [value |-> hits[Len(hits)], raised |-> "none"]
        ELSE [value |-> 0, raised |-> "IndexError"]

\* np.where(binValues >= x)[0][0]
index_of_max_value(binValues, x) ==
    LET hits == np_where(binValues, LAMBDA e : e >= x)
    IN  IF Len(hits) > 0 THEN [value |-> hits[1], raised |-> "none"]
        ELSE [value |-> 0, raised |-> "IndexError"]

\* The DataHandler after _get_active_histogram_data: np.put writes nan at the
\* inactive ids of sourceData.flatten().copy().
put_active_histogram_data(s) ==
    np_put(s, ndarray_copy(ndarray_flatten("sourceData")),
           [k \in 1..Len(s.sourceData) |->
              IF (k - 1) \in Range(s.inactiveDataPoints) THEN NaN ELSE s.sourceData[k]])

\* plot_histogram after its call of _get_active_histogram_data: the state it
\* writes.  np.min of an empty array raises ValueError: of data before
\* anything is stored, of activeData after binValues is stored.
histogram_of(s) ==
    LET data == get_histogram_data(s)
        activeData == get_active_histogram_data(s)
    IN  IF data = <<>> THEN [self |-> s, raised |-> "ValueError"]
        ELSE
        LET binValues == bin_edges(data, s.numberOfBins)
            s1 == [s EXCEPT !.histogramData.binValues = binValues]
        IN  IF activeData = <<>> THEN [self |-> s1, raised |-> "ValueError"]
            ELSE
            LET lo == index_of_min_value(binValues, Scaled(s, SeqMin(activeData)))
                hi == index_of_max_value(binValues, Scaled(s, SeqMax(activeData)))
            IN  IF lo.raised # "none" THEN [self |-> s1, raised |-> lo.raised]
                ELSE LET s2 == [s1 EXCEPT !.histogramData.indexOfMinValue = lo.value]
                     IN  IF hi.raised # "none" THEN [self |-> s2, raised |-> hi.raised]
                         ELSE [self |-> [s2 EXCEPT
                                  !.histogramData.indexOfMaxValue = hi.value],
                               raised |-> "none"]

\* plot_histogram
plot_histogram(s) == histogram_of(put_active_histogram_data(s))

\* for point in reactivatedDataPoints: self.inactiveDataPoints.remove(point)
remove_points(list, points) ==
    LET RECURSIVE loop(_, _)
        loop(l, k) ==
            IF k > Len(points) THEN [list |-> l, raised |-> "none"]
            ELSE LET rm == list_remove(l, points[k])
                 IN  IF rm.raised # "none" THEN rm ELSE loop(rm.list, k + 1)
    IN  loop(list, 1)

\* The scan of "min down": decrement the trial index until the bin
\* [newMin, oldMin) holds a point or the index is 0.  binValues is indexed as
\* numpy indexes it.
RECURSIVE min_down_scan(_, _, _)
min_down_scan(s, data, minIndex) ==
    LET binValues == s.histogramData.binValues
        oldMin == np_index(binValues, minIndex)
        newIndex == minIndex - 1
        newMin == np_index(binValues, newIndex)
        reactivatedDataPoints ==
            np_where(data, LAMBDA v : /\ Scaled(s, v) >= newMin.value
                                      /\ Scaled(s, v) < oldMin.value)
    IN  IF oldMin.raised # "none" \/ newMin.raised # "none"
        THEN [points |-> <<>>, index |-> newIndex, steps |-> 1, raised |-> "IndexError"]
        ELSE IF Len(reactivatedDataPoints) > 0 \/ newIndex = 0
        THEN [points |-> reactivatedDataPoints, index |-> newIndex,
              steps |-> 1, raised |-> "none"]
        ELSE LET r == min_down_scan(s, data, newIndex)
             IN  [r EXCEPT !.steps = r.steps + 1]

\* The scan of "max up": increment the trial index until the bin
\* (oldMax, newMax] holds a point or the index is numberOfBins.
RECURSIVE max_up_scan(_, _, _)
max_up_scan(s, data, maxIndex) ==
    LET binValues == s.histogramData.binValues
        oldMax == np_index(binValues, maxIndex)
        newIndex == maxIndex + 1
        newMax == np_index(binValues, newIndex)
        reactivatedDataPoints ==
            np_where(data, LAMBDA v : /\ Scaled(s, v) <= newMax.value
                                      /\ Scaled(s, v) > oldMax.value)
    IN  IF oldMax.raised # "none" \/ newMax.raised # "none"
        THEN [points |-> <<>>, index |-> newIndex, steps |-> 1, raised |-> "IndexError"]
        ELSE IF Len(reactivatedDataPoints) > 0 \/ newIndex = s.numberOfBins
        THEN [points |-> reactivatedDataPoints, index |-> newIndex,
              steps |-> 1, raised |-> "none"]
        ELSE LET r == max_up_scan(s, data, newIndex)
             IN  [r EXCEPT !.steps = r.steps + 1]

\* The guard of "max up" with <= for <.
max_up_permitted_le(s) == s.histogramData.indexOfMaxValue <= s.numberOfBins

\* The guard of "min up" without its - 1.
min_up_permitted_off_by_one(s) ==
    s.histogramData.indexOfMinValue < s.histogramData.indexOfMaxValue

\* The guards of the four moves.
min_up_permitted(s) ==
    s.histogramData.indexOfMinValue < s.histogramData.indexOfMaxValue - 1
min_down_permitted(s) == s.histogramData.indexOfMinValue > 0
max_up_permitted(s) == s.histogramData.indexOfMaxValue < s.numberOfBins
max_down_permitted(s) ==
    s.histogramData.indexOfMaxValue > s.histogramData.indexOfMinValue + 1

Directions == {"min up", "min down", "max up", "max down"}

permitted(s, direction) ==
    CASE direction = "min up" -> min_up_permitted(s)
      [] direction = "min down" -> min_down_permitted(s)
      [] direction = "max up" -> max_up_permitted(s)
      [] direction = "max down" -> max_down_permitted(s)
      [] OTHER -> FALSE

\* restrict_histogram.  minIndex and maxIndex are locals: histogramData is
\* not written.  A ValueError of list.remove leaves the list as the loop left
\* it, without the final dedup.
restrict_histogram(s, direction) ==
    LET minIndex == s.histogramData.indexOfMinValue
        maxIndex == s.histogramData.indexOfMaxValue
        binValues == s.histogramData.binValues
        data == get_histogram_data(s)
        done(list) == [self |-> [s EXCEPT !.inactiveDataPoints = list_set(list)],
                       raised |-> "none"]
        failed(rm) == [self |-> [s EXCEPT !.inactiveDataPoints = rm.list],
                       raised |-> rm.raised]
    IN  IF direction = "min up" /\ min_up_permitted(s) THEN
            LET newMin == binValues[minIndex + 1 + 1]
            IN  done(s.inactiveDataPoints
                     \o np_where(data, LAMBDA v : Scaled(s, v) < newMin))
        ELSE IF direction = "min down" /\ min_down_permitted(s) THEN
            LET scan == min_down_scan(s, data, minIndex)
                rm == remove_points(s.inactiveDataPoints, scan.points)
            IN  IF scan.raised # "none" THEN [self |-> s, raised |-> scan.raised]
                ELSE IF rm.raised # "none" THEN failed(rm) ELSE done(rm.list)
        ELSE IF direction = "max up" /\ max_up_permitted(s) THEN
            LET scan == max_up_scan(s, data, maxIndex)
                rm == remove_points(s.inactiveDataPoints, scan.points)
            IN  IF scan.raised # "none" THEN [self |-> s, raised |-> scan.raised]
                ELSE IF rm.raised # "none" THEN failed(rm) ELSE done(rm.list)
        ELSE IF direction = "max down" /\ max_down_permitted(s) THEN
            LET newMax == binValues[maxIndex - 1 + 1]
            IN  done(s.inactiveDataPoints
                     \o np_where(data, LAMBDA v : Scaled(s, v) > newMax))
        ELSE done(s.inactiveDataPoints)

----------------------------------------------------------------------------
\* Curve Average Engine.
\*
\* A curve is [x, y]: curve[0] and curve[1] of the source.  The interpolated
\* values and the average are exact fractions [num, den] with den > 0, and the
\* abscissae of a resampling grid are held multiplied by GridScale.

GridScale == numberOfDataPoints - 1

Frac(v) == [num |-> v, den |-> 1]

RECURSIVE GCD(_, _)
GCD(a, b) == IF b = 0 THEN a ELSE GCD(b, a % b)

\* The fraction num / den in lowest terms.
Lowest(num, den) ==
    [num |-> num \div GCD(IF num < 0 THEN 0 - num ELSE num, den),
     den |-> den \div GCD(IF num < 0 THEN 0 - num ELSE num, den)]

\* a[from:to] for 0 <= from, to: the slice ends at the end of a.
Slice(a, from, to) == SubSeq(a, from + 1, IF to > Len(a) THEN Len(a) ELSE to)

\* np.linspace(first, last, numberOfDataPoints), every value times GridScale.
linspace(first, last) ==
    [g \in 1..numberOfDataPoints |-> first * GridScale + (g - 1) * (last - first)]

\* np.interp(X / GridScale, xp, fp) for an increasing xp: the end values
\* outside xp, ValueError for an empty xp.
np_interp(X, xp, fp) ==
    IF Len(xp) = 0 \/ Len(xp) # Len(fp)
    THEN [value |-> Frac(0), raised |-> "ValueError"]
    ELSE IF X > xp[Len(xp)] * GridScale
    THEN [value |-> Frac(fp[Len(fp)]), raised |-> "none"]
    ELSE IF X < xp[1] * GridScale
    THEN [value |-> Frac(fp[1]), raised |-> "none"]
    ELSE LET j == CHOOSE i \in 1..Len(xp) :
                      /\ xp[i] * GridScale <= X
                      /\ (i = Len(xp) \/ X < xp[i + 1] * GridScale)
         IN  IF j = Len(xp) \/ xp[j] * GridScale = X
             THEN [value |-> Frac(fp[j]), raised |-> "none"]
             ELSE LET dx == (xp[j + 1] - xp[j]) * GridScale
                  IN  [value |-> Lowest(fp[j] * dx
                                          + (fp[j + 1] - fp[j]) * (X - xp[j] * GridScale),
                                        dx),
                       raised |-> "none"]

RECURSIVE FracSum(_)
FracSum(vs) ==
    IF vs = <<>> THEN Frac(0)
    ELSE LET r == FracSum(Tail(vs))
         IN  Lowest(vs[1].num * r.den + r.num * vs[1].den, vs[1].den * r.den)

\* np.nanmean of values without nan.
nanmean(vs) ==
    LET sum == FracSum(vs) IN Lowest(sum.num, sum.den * Len(vs))

\* np.nanstd of values without nan, squared: mean(v * v) - mean(v) * mean(v).
nanstd_squared(vs) ==
    LET sum == FracSum(vs)
        sq == FracSum([i \in 1..Len(vs) |->
                         [num |-> vs[i].num * vs[i].num, den |-> vs[i].den * vs[i].den]])
        n == Len(vs)
    IN  Lowest(sq.num * n * sum.den * sum.den - sum.num * sum.num * sq.den,
               sq.den * n * n * sum.den * sum.den)

\* remove_average_curves without the reset of the list.
remove_average_curves_keep(s) == s

\* remove_average_curves
remove_average_curves(s) == [s EXCEPT !.averageData.curves = 0]

\* The indices of every curve, the inactive ones too.
active_curve_indices_all(s) == [k \in 1..Len(s.correctedCurves) |-> k - 1]

\* The indices _get_active_curve_data keeps.
active_curve_indices(s) ==
    SelectSeq([k \in 1..Len(s.correctedCurves) |-> k - 1],
              LAMBDA index : index \notin Range(s.inactiveDataPoints))

\* _get_active_curve_data: the curves whose index is not in inactiveDataPoints,
\* the smallest x and the largest y among them; min() of an empty list raises
\* ValueError.
get_active_curve_data(s) ==
    LET indices == active_curve_indices(s)
        activeCurves == [k \in 1..Len(indices) |-> s.correctedCurves[indices[k] + 1]]
        xMinValues == [k \in 1..Len(indices) |-> SeqMin(activeCurves[k].x)]
        yMaxValues == [k \in 1..Len(indices) |-> SeqMax(activeCurves[k].y)]
    IN  IF indices = <<>>
        THEN [activeCurves |-> <<>>, xMin |-> 0, yMax |-> 0, raised |-> "ValueError"]
        ELSE [activeCurves |-> activeCurves, xMin |-> SeqMin(xMinValues),
              yMax |-> SeqMax(yMaxValues), raised |-> "none"]

\* np.where(curve[0] < 0)[0][-1]
last_zero_crossing(curve) ==
    LET hits == np_where(curve.x, LAMBDA v : v < 0)
    IN  IF Len(hits) > 0 THEN [value |-> hits[Len(hits)], raised |-> "none"]
        ELSE [value |-> 0, raised |-> "IndexError"]

\* The body of the loop of _interpolate_normed_curves for one curve whose
\* last sample of x < 0 is at index k: np.interp over curve[0][:k], curve[1][:k]
\* on the left grid and over curve[1][k:], curve[0][k:] on the right grid.
interpolate_curve(curve, k, normedXValuesLeft, normedXValuesRight) ==
    [left |-> [g \in 1..numberOfDataPoints |->
                 np_interp(normedXValuesLeft[g],
                           Slice(curve.x, 0, k), Slice(curve.y, 0, k))],
     right |-> [g \in 1..numberOfDataPoints |->
                  np_interp(normedXValuesRight[g],
                            Slice(curve.y, k, Len(curve.y)),
                            Slice(curve.x, k, Len(curve.x)))]]

\* The values one curve appends, or the exception it raises.
normed_curve(lastZeroCrossing, interpolated) ==
    IF lastZeroCrossing.raised # "none"
    THEN [left |-> <<>>, right |-> <<>>, raised |-> lastZeroCrossing.raised]
    ELSE IF interpolated.left[1].raised # "none"
    THEN [left |-> <<>>, right |-> <<>>, raised |-> interpolated.left[1].raised]
    ELSE IF interpolated.right[1].raised # "none"
    THEN [left |-> <<>>, right |-> <<>>, raised |-> interpolated.right[1].raised]
    ELSE [left |-> [g \in 1..numberOfDataPoints |-> interpolated.left[g].value],
          right |-> [g \in 1..numberOfDataPoints |-> interpolated.right[g].value],
          raised |-> "none"]

\* The NormedCurves tuple; the first curve that raises ends the loop.
NormedCurves(each, normedXValuesLeft, normedXValuesRight) ==
    [xValuesLeft |-> normedXValuesLeft,
     yValuesLeft |-> [c \in 1..Len(each) |-> each[c].left],
     xValuesRight |-> normedXValuesRight,
     yValuesRight |-> [c \in 1..Len(each) |-> each[c].right],
     raised |-> IF \A c \in 1..Len(each) : each[c].raised = "none" THEN "none"
                ELSE each[CHOOSE c \in 1..Len(each) :
                            /\ each[c].raised # "none"
                            /\ \A d \in 1..(c - 1) : each[d].raised = "none"].raised]

\* _interpolate_normed_curves
interpolate_normed_curves(activeCurves, xMin, yMax) ==
    NormedCurves(
        [c \in 1..Len(activeCurves) |->
           normed_curve(last_zero_crossing(activeCurves[c]),
                        interpolate_curve(activeCurves[c],
                                          last_zero_crossing(activeCurves[c]).value,
                                          linspace(xMin, 0), linspace(0, yMax)))],
        linspace(xMin, 0), linspace(0, yMax))

\* zip(*values)[g]
nth(values, g) == [c \in 1..Len(values) |-> values[c][g]]

\* The arrays _calculate_average stores in averageData.
store_average(s, normed) ==
    IF normed.raised # "none" THEN [self |-> s, raised |-> normed.raised]
    ELSE [self |-> [s EXCEPT !.averageData =
            [@ EXCEPT
               !.leftXValues = normed.xValuesLeft,
               !.leftYValues = [g \in 1..numberOfDataPoints |->
                                  nanmean(nth(normed.yValuesLeft, g))],
               !.rightXValues = normed.xValuesRight,
               !.rightYValues = [g \in 1..numberOfDataPoints |->
                                   nanmean(nth(normed.yValuesRight, g))],
               !.standardDeviationLeft = [g \in 1..numberOfDataPoints |->
                    nanstd_squared(nth(normed.yValuesLeft, g))],
               !.standardDeviationRight = [g \in 1..numberOfDataPoints |->
                    nanstd_squared(nth(normed.yValuesRight, g))]]],
          raised |-> "none"]

\* _calculate_average from the result of _get_active_curve_data.
average_active_curves(s, active) ==
    IF active.raised # "none" THEN [self |-> s, raised |-> active.raised]
    ELSE store_average(s, interpolate_normed_curves(active.activeCurves,
                                                    active.xMin, active.yMax))

\* _calculate_average: averageData is written after every curve is interpolated.
calculate_average(s) == average_active_curves(s, get_active_curve_data(s))

\* _plot_average and _plot_average_as_errorbar: both append two artifacts.
plot_average(r, passed) ==
    IF r.raised # "none"
    THEN [self |-> r.self, raised |-> r.raised, early |-> FALSE, passed |-> passed]
    ELSE [self |-> [r.self EXCEPT !.averageData.curves = @ + 2,
                                  !.averageData.activeCurves = passed],
          raised |-> "none", early |-> FALSE, passed |-> passed]

\* update_average after remove_average_curves: early is the return of line 279.
average_or_return(s) ==
    IF Len(s.inactiveDataPoints) = s.generalData.m * s.generalData.n
    THEN [self |-> s, raised |-> "none", early |-> TRUE, passed |-> <<>>]
    ELSE plot_average(calculate_average(s), active_curve_indices(s))

\* update_average
update_average(s) == average_or_return(remove_average_curves(s))

\* linePlotParameters["showInactive"] as set_plot_parameters sets it.
showInactive == FALSE

\* update_lines: the line of an inactive index is gray or white, any other red.
update_lines(s) ==
    [s EXCEPT !.displayedLines =
        [k \in 1..Len(s.displayedLines) |->
            IF (k - 1) \in Range(s.inactiveDataPoints) /\ showInactive THEN "gray"
            ELSE IF (k - 1) \in Range(s.inactiveDataPoints) /\ ~showInactive THEN "white"
            ELSE "red"]]

\* What update_line_plot keeps of update_average.
Returned(r) == [self |-> r.self, raised |-> r.raised]

\* The rest of update_line_plot after update_lines.
average_if_displayed(s) ==
    IF s.displayAverage THEN Returned(update_average(s))
    ELSE [self |-> s, raised |-> "none"]

\* update_line_plot: update_lines, then update_average when displayAverage is set.
update_line_plot(s) == average_if_displayed(update_lines(s))

\* _get_heatmap_data: channelData[channel]["data"], flattened.
get_heatmap_data(s) == flatten(s.data)

\* np.put(data, mappedInactiveDataPoints, np.nan)
np_put_nan(data, indices) ==
    [i \in 1..Len(data) |-> IF (i - 1) \in indices THEN NaN ELSE data[i]]

\* data = data.flatten() and np.put(data, mappedInactiveDataPoints, np.nan):
\* the array returned and the DataHandler after the write.
masked_heatmap(s, mappedInactiveDataPoints) ==
    [self |-> np_put(s, ndarray_flatten("data"),
                     np_put_nan(get_heatmap_data(s), mappedInactiveDataPoints)),
     data |-> np_put_nan(get_heatmap_data(s), mappedInactiveDataPoints),
     masked |-> mappedInactiveDataPoints,
     raised |-> "none"]

\* _get_active_heatmap_data: nan at the linear index of every inactive point;
\* IndexError when an id is not in mappedIndices.
get_active_heatmap_data(s) ==
    LET mapped == flatten(s.mappedIndices)
        points == Range(s.inactiveDataPoints)
    IN  IF \E point \in points : point \notin Range(mapped)
        THEN [self |-> s, data |-> <<>>, masked |-> {}, raised |-> "IndexError"]
        ELSE masked_heatmap(s, {toLinear(s.mappedIndices, point).value : point \in points})

\* update_plots: update_line_plot, update_heatmap, update_histogram; an
\* exception ends it.
update_plots(s) ==
    LET line == update_line_plot(s)
        heat == get_active_heatmap_data(line.self)
    IN  IF line.raised # "none" THEN line
        ELSE IF heat.raised # "none" THEN [self |-> heat.self, raised |-> heat.raised]
        ELSE plot_histogram(heat.self)

----------------------------------------------------------------------------
\* Curve Splitter and the import of the wave files (data_handling/import_data.py).

isnan(v) == v = NaN

\* np.flip(a, 0)
np_flip(a) == [i \in 1..Len(a) |-> a[Len(a) + 1 - i]]

\* np.argmax at the last index of the maximum.
np_argmax_last(a) ==
    IF a = <<>> THEN [value |-> 0, raised |-> "ValueError"]
    ELSE [value |-> (CHOOSE i \in 1..Len(a) :
                        /\ a[i] = SeqMax(a)
                        /\ \A j \in (i + 1)..Len(a) : a[j] # SeqMax(a)) - 1,
          raised |-> "none"]

\* np.argmax(a): the first index of the maximum, ValueError for an empty array.
np_argmax(a) ==
    IF a = <<>> THEN [value |-> 0, raised |-> "ValueError"]
    ELSE [value |-> (CHOOSE i \in 1..Len(a) :
                        /\ a[i] = SeqMax(a)
                        /\ \A j \in 1..(i - 1) : a[j] # SeqMax(a)) - 1,
          raised |-> "none"]

\* The curves split_curve returns for the splitting point k.
split_at(xValues, yValues, k) ==
    [approachCurve |-> [x |-> Slice(xValues, 0, k), y |-> Slice(yValues, 0, k)],
     retractCurve |-> [x |-> np_flip(Slice(xValues, k, Len(xValues))),
                       y |-> np_flip(Slice(yValues, k, Len(yValues)))],
     raised |-> "none"]

\* split_curve
split_curve(xValues, yValues) ==
    IF np_argmax(xValues).raised # "none"
    THEN [approachCurve |-> [x |-> <<>>, y |-> <<>>],
          retractCurve |-> [x |-> <<>>, y |-> <<>>],
          raised |-> np_argmax(xValues).raised]
    ELSE split_at(xValues, yValues, np_argmax(xValues).value)

\* curveXValues[~np.isnan(curveXValues)]
valid_values(wData) == SelectSeq(wData, LAMBDA v : ~isnan(v))

\* The loop of load_bam_ibw_data_files over the pairs of wave files: an
\* exception of split_curve ends the import with the curves read so far.
RECURSIVE load_curves(_, _, _)
load_curves(dataFiles, approachCurves, retractCurves) ==
    IF dataFiles = <<>>
    THEN [approachCurves |-> approachCurves, retractCurves |-> retractCurves,
          raised |-> "none"]
    ELSE IF split_curve(valid_values(dataFiles[1].x),
                        valid_values(dataFiles[1].y)).raised # "none"
    THEN [approachCurves |-> approachCurves, retractCurves |-> retractCurves,
          raised |-> split_curve(valid_values(dataFiles[1].x),
                                 valid_values(dataFiles[1].y)).raised]
    ELSE load_curves(Tail(dataFiles),
                     Append(approachCurves,
                            split_curve(valid_values(dataFiles[1].x),
                                        valid_values(dataFiles[1].y)).approachCurve),
                     Append(retractCurves,
                            split_curve(valid_values(dataFiles[1].x),
                                        valid_values(dataFiles[1].y)).retractCurve))

\* load_bam_ibw_data_files
load_bam_ibw_data_files(dataFiles) == load_curves(dataFiles, <<>>, <<>>)

----------------------------------------------------------------------------
\* The handlers: one user action is a mutation of the registry followed by
\* update_plots; an exception of the mutation ends the handler.

Commit(s) ==
    /\ generalData' = s.generalData
    /\ mappedIndices' = s.mappedIndices
    /\ sourceData' = s.sourceData
    /\ heatmapData' = s.data
    /\ correctedCurves' = s.correctedCurves
    /\ displayedLines' = s.displayedLines
    /\ numberOfBins' = s.numberOfBins
    /\ inactiveDataPoints' = s.inactiveDataPoints
    /\ histogramData' = s.histogramData
    /\ displayAverage' = s.displayAverage
    /\ averageData' = s.averageData
    /\ UNCHANGED importer

ThenUpdatePlots(r) == IF r.raised # "none" THEN r ELSE update_plots(r.self)

\* A threshold move and the refresh that follows it.
move(s, direction) == ThenUpdatePlots(restrict_histogram(s, direction))

\* The linear indices one toggle call may name.
ToggleInputs ==
    UNION {[1..k -> 0..(NumPoints(self) - 1)] : k \in 1..MaxToggle}

SinglePoints == [1..1 -> 0..(NumPoints(self) - 1)]

CanonicalIds(s, newPoints) ==
    {toCanonical(s.mappedIndices, newPoints[k]) : k \in 1..Len(newPoints)}

Distinct(newPoints) ==
    \A i, j \in 1..Len(newPoints) : newPoints[i] = newPoints[j] => i = j

Deactivate(newPoints) ==
    LET r == ThenUpdatePlots(add_inactive_data_points(self, newPoints))
    IN  /\ Commit(r.self)
        /\ call' = [op |-> "add_inactive_data_points",
                    arg |-> IF Distinct(newPoints)
                               /\ CanonicalIds(self, newPoints)
                                    \cap Range(inactiveDataPoints) = {}
                            THEN "new" ELSE "again",
                    raised |-> r.raised]

Activate(newPoints) ==
    LET r == ThenUpdatePlots(remove_inactive_data_points(self, newPoints))
    IN  /\ Commit(r.self)
        /\ call' = [op |-> "remove_inactive_data_points",
                    arg |-> IF Distinct(newPoints)
                               /\ CanonicalIds(self, newPoints)
                                    \subseteq Range(inactiveDataPoints)
                            THEN "new" ELSE "again",
                    raised |-> r.raised]

Move(direction) ==
    LET r == ThenUpdatePlots(restrict_histogram(self, direction))
    IN  /\ Commit(r.self)
        /\ call' = [op |-> direction,
                    arg |-> IF permitted(self, direction) THEN "permitted" ELSE "refused",
                    raised |-> r.raised]

Turns == {"rot90", "fliplr", "flipud"}

\* The array a after the rotation or flip.
Oriented(a, turn) ==
    CASE turn = "rot90" -> Rot90(a)
      [] turn = "fliplr" -> FlipLR(a)
      [] turn = "flipud" -> FlipUD(a)

\* The grid is shown under a new rotation or flip: mappedIndices and the data
\* of the channel are turned alike.
Reorient ==
    /\ \E turn \in Turns :
          LET r == update_plots([self EXCEPT
                                   !.mappedIndices = Oriented(mappedIndices, turn),
                                   !.data = Oriented(heatmapData, turn)])
          IN  /\ Commit(r.self)
              /\ call' = [op |-> "reorient", arg |-> "none", raised |-> r.raised]

\* The average is switched on or off.
ToggleAverage ==
    LET s1 == [self EXCEPT !.displayAverage = ~displayAverage]
        r == IF s1.displayAverage THEN update_average(s1)
             ELSE [self |-> remove_average_curves(s1), raised |-> "none"]
    IN  /\ Commit(r.self)
        /\ call' = [op |-> "update_average", arg |-> "none", raised |-> r.raised]

----------------------------------------------------------------------------
\* The state after import, init_data, init_mapped_indices and
\* display_imported_data.

GridShapes == {d \in (1..MaxPoints) \X (1..MaxPoints) : d[1] * d[2] <= MaxPoints}

\* Channels of k points with at least one finite value.
Channels(k) == {c \in [1..k -> (0..MaxVal) \cup {NaN}] : \E i \in 1..k : isfinite(c[i])}

\* A channel without non-finite values: the value of point k is k mod (MaxVal + 1).
RampChannel(k) == [i \in 1..k |-> (i - 1) % (MaxVal + 1)]

\* A curve of consecutive x with one sample before the last one below 0.
DefaultCurve ==
    [x |-> [i \in 1..CurveLen |-> i - CurveLen], y |-> [i \in 1..CurveLen |-> i - 1]]

init_data(m, n, channel, bins) ==
    [generalData |-> [m |-> m, n |-> n],
     mappedIndices |-> init_mapped_indices(m, n),
     sourceData |-> channel,
     data |-> [rows |-> m, cols |-> n, flat |-> channel],
     correctedCurves |-> [k \in 1..(m * n) |-> DefaultCurve],
     displayedLines |-> [k \in 1..(m * n) |-> "red"],
     numberOfBins |-> bins,
     inactiveDataPoints |-> <<>>,
     histogramData |-> [binValues |-> <<>>, indexOfMinValue |-> 0, indexOfMaxValue |-> 0],
     displayAverage |-> FALSE,
     averageData |-> [curves |-> 0, activeCurves |-> <<>>,
                      leftXValues |-> <<>>, leftYValues |-> <<>>,
                      rightXValues |-> <<>>, rightYValues |-> <<>>,
                      standardDeviationLeft |-> <<>>, standardDeviationRight |-> <<>>]]

\* The fields of the DataHandler are those of s.
Holds(s) ==
    /\ generalData = s.generalData
    /\ mappedIndices = s.mappedIndices
    /\ sourceData = s.sourceData
    /\ heatmapData = s.data
    /\ correctedCurves = s.correctedCurves
    /\ displayedLines = s.displayedLines
    /\ numberOfBins = s.numberOfBins
    /\ inactiveDataPoints = s.inactiveDataPoints
    /\ histogramData = s.histogramData
    /\ displayAverage = s.displayAverage
    /\ averageData = s.averageData

Imported(s) ==
    /\ Holds(s)
    /\ importer = [dataFiles |-> <<>>, approachCurves |-> <<>>, retractCurves |-> <<>>]
    /\ call = [op |-> "display_imported_data", arg |-> "none", raised |-> "none"]

\* Any channel of a single row of up to HistPoints points,
\* the orientation of the import; toggles of one point and threshold moves.
Init ==
    \E n \in 1..HistPoints :
        \E channel \in Channels(n) :
            Imported(plot_histogram(init_data(1, n, channel, NumberOfBins)).self)

Next ==
    \/ \E newPoints \in SinglePoints : Deactivate(newPoints)
    \/ \E newPoints \in SinglePoints : Activate(newPoints)
    \/ \E direction \in Directions : Move(direction)

Spec == Init /\ [][Next]_vars

\* One finite channel, every grid shape and orientation, toggles of up to
\* MaxToggle points.
InitMap ==
    \E d \in GridShapes :
        Imported(plot_histogram(
            init_data(d[1], d[2], RampChannel(d[1] * d[2]), NumberOfBins)).self)

NextMap ==
    \/ \E newPoints \in ToggleInputs : Deactivate(newPoints)
    \/ \E newPoints \in ToggleInputs : Activate(newPoints)
    \/ Reorient

SpecMap == InitMap /\ [][NextMap]_vars

\* One finite channel of a single row, the average switched on and off.
InitAvg ==
    \E n \in 1..HistPoints :
        Imported(plot_histogram(init_data(1, n, RampChannel(n), NumberOfBins)).self)

NextAvg ==
    \/ \E newPoints \in SinglePoints : Deactivate(newPoints)
    \/ \E newPoints \in SinglePoints : Activate(newPoints)
    \/ \E direction \in Directions : Move(direction)
    \/ ToggleAverage

SpecAvg == InitAvg /\ [][NextAvg]_vars

\* One finite channel, every grid shape and orientation, toggles of one point.
NextOrient ==
    \/ \E newPoints \in SinglePoints : Deactivate(newPoints)
    \/ \E newPoints \in SinglePoints : Activate(newPoints)
    \/ Reorient

SpecOrient == InitMap /\ [][NextOrient]_vars

\* Any channel of finite values of a single row of up to MaxPoints points.
InitFinite ==
    \E n \in 1..MaxPoints :
        \E channel \in [1..n -> 0..MaxVal] :
            Imported(plot_histogram(init_data(1, n, channel, NumberOfBins)).self)

SpecFinite == InitFinite /\ [][Next]_vars

\* Curves of consecutive x that start at or below 0, with increasing y: the
\* last sample below 0 is at any index or there is none.
Increasing(a) == \A i \in 1..(Len(a) - 1) : a[i] < a[i + 1]

Curves ==
    {[x |-> [i \in 1..CurveLen |-> start + i - 1], y |-> y] :
        start \in (1 - CurveLen)..0,
        y \in {c \in [1..CurveLen -> 0..MaxY] : Increasing(c)}}

\* Any curves on a grid of one point or of two points; toggles of one point
\* and the average switched on and off.
InitCurve ==
    \E n \in 1..2 :
        \E curves \in [1..n -> Curves] :
            Imported(plot_histogram(
                [init_data(1, n, RampChannel(n), NumberOfBins)
                    EXCEPT !.correctedCurves = curves]).self)

NextCurve ==
    \/ \E newPoints \in SinglePoints : Deactivate(newPoints)
    \/ \E newPoints \in SinglePoints : Activate(newPoints)
    \/ ToggleAverage

SpecCurve == InitCurve /\ [][NextCurve]_vars

\* load_bam_ibw_data_files is called for the directory of one measurement
\* point.
Load ==
    /\ call.op = "__init__"
    /\ LET r == load_bam_ibw_data_files(importer.dataFiles)
       IN  /\ importer' = IF r.raised # "none" THEN importer
                          ELSE [importer EXCEPT !.approachCurves = r.approachCurves,
                                                !.retractCurves = r.retractCurves]
           /\ call' = [op |-> "load_bam_ibw_data_files", arg |-> "none",
                       raised |-> r.raised]
    /\ UNCHANGED <<generalData, mappedIndices, sourceData, heatmapData, correctedCurves,
                   displayedLines, numberOfBins, inactiveDataPoints, histogramData, displayAverage,
                   averageData>>

\* The x waves of len samples, nan included.
XWaves(len) == [1..len -> (0..MaxVal) \cup {NaN}]

\* The y waves of len samples: the sample of index i is i or nan.
YWaves(len) ==
    {w \in [1..len -> (0..MaxVal) \cup {NaN}] :
        \A i \in 1..len : w[i] \in {(i - 1) % (MaxVal + 1), NaN}}

\* The DataHandler is constructed and the x and y wave of one measurement
\* point, of up to CurveLen samples, wait to be imported.
InitImport ==
    \E len \in 0..CurveLen :
        \E xWave \in XWaves(len), yWave \in YWaves(len) :
            /\ Holds(init_data(1, 1, RampChannel(1), NumberOfBins))
            /\ importer = [dataFiles |-> <<[x |-> xWave, y |-> yWave]>>,
                           approachCurves |-> <<>>, retractCurves |-> <<>>]
            /\ call = [op |-> "__init__", arg |-> "none", raised |-> "none"]

NextImport == Load

SpecImport == InitImport /\ [][NextImport]_vars

\* The ramp channel with a non-finite value at its last point.
NanChannel(k) ==
    [i \in 1..k |-> IF i = k /\ k > 1 THEN NaN ELSE (i - 1) % (MaxVal + 1)]

\* A channel of finite values or one with a non-finite value, every grid shape
\* and orientation, toggles of one point.
InitHeat ==
    \E d \in GridShapes :
        \E channel \in {RampChannel(d[1] * d[2]), NanChannel(d[1] * d[2])} :
            Imported(plot_histogram(
                init_data(d[1], d[2], channel, NumberOfBins)).self)

SpecHeat == InitHeat /\ [][NextOrient]_vars

\* Any channel of a single row of MaxPoints points with one non-finite value;
\* toggles of one point and threshold moves.
InitNan ==
    \E channel \in {c \in Channels(MaxPoints) :
                      Cardinality({i \in 1..MaxPoints : ~isfinite(c[i])}) = 1} :
        Imported(plot_histogram(init_data(1, MaxPoints, channel, NumberOfBins)).self)

SpecNan == InitNan /\ [][Next]_vars

----------------------------------------------------------------------------
\* Properties.

NoDup(l) == \A i, j \in 1..Len(l) : l[i] = l[j] => i = j

AllPoints == 0..(NumPoints(self) - 1)

InactiveSet == Range(inactiveDataPoints)

ReturnedNormally == call.raised = "none"

\* C1: one toggle call changes the inactive set as the same operation on the
\* canonical ids does: a deactivation adds the ids of the named points, an
\* activation takes them away, under the orientation current at the call.
C1_TogglesRefineCanonicalSets ==
    \A newPoints \in ToggleInputs :
        /\ Range(add_inactive_data_points(self, newPoints).self.inactiveDataPoints)
             = InactiveSet \cup CanonicalIds(self, newPoints)
        /\ Range(remove_inactive_data_points(self, newPoints).self.inactiveDataPoints)
             = InactiveSet \ CanonicalIds(self, newPoints)

\* C2: under every orientation, the canonical id of a linear index maps back
\* to that linear index.
C2_RoundTrip ==
    \A i \in AllPoints :
        LET back == toLinear(mappedIndices, toCanonical(mappedIndices, i))
        IN  back.raised = "none" /\ back.value = i

\* A point was deactivated under an orientation in which linear indices are
\* not the canonical ids.
C2_Witness ==
    /\ call.op = "add_inactive_data_points"
    /\ ReturnedNormally
    /\ get_active_heatmap_data(self).masked # InactiveSet

\* The active channel values, scaled as the bin edges are.
ActiveValues == {Scaled(self, v) : v \in Range(get_active_histogram_data(self))}

MoveRefreshed == call.op \in Directions /\ ReturnedNormally

C4_DeactivateIdempotent ==
    /\ NoDup(inactiveDataPoints)
    /\ \A i \in AllPoints :
          toCanonical(mappedIndices, i) \in InactiveSet =>
              \A newPoints \in {<<i>>, <<i, i>>} :
                  LET r == add_inactive_data_points(self, newPoints)
                  IN  /\ r.raised = "none"
                      /\ Range(r.self.inactiveDataPoints) = InactiveSet
                      /\ NoDup(r.self.inactiveDataPoints)

\* An inactive point was deactivated again.
C4_Witness ==
    /\ call.op = "add_inactive_data_points"
    /\ call.arg = "again"
    /\ ReturnedNormally
    /\ inactiveDataPoints # <<>>

\* C5: activating points that are active already returns normally and leaves
\* inactiveDataPoints as it was, and a linear index listed twice activates its
\* point as listing it once does.
C5_ActivateActiveIsNoOp ==
    \A newPoints \in ToggleInputs :
        LET r == remove_inactive_data_points(self, newPoints)
        IN  /\ CanonicalIds(self, newPoints) \cap InactiveSet = {} =>
                 r.raised = "none" /\ r.self.inactiveDataPoints = inactiveDataPoints
            /\ (Len(newPoints) = 2 /\ newPoints[1] = newPoints[2]) =>
                 /\ r.raised = "none"
                 /\ Range(r.self.inactiveDataPoints)
                      = InactiveSet \ CanonicalIds(self, newPoints)

\* C6: update_average returns early exactly when every point is inactive, then
\* without raising and without a new average; otherwise it passes at least one
\* active curve to the average computation.
C6_EarlyReturnIffAllInactive ==
    LET r == update_average(self)
    IN  /\ r.early <=> InactiveSet = AllPoints
        /\ r.early =>
             /\ r.raised = "none"
             /\ r.self.averageData.curves = 0
             /\ r.self.averageData.activeCurves = averageData.activeCurves
        /\ ~r.early =>
             /\ r.raised = "none"
             /\ Len(r.passed) >= 1
             /\ Range(r.passed) = AllPoints \ InactiveSet

\* update_average ran with every point inactive.
C6_Witness ==
    /\ call.op = "update_average"
    /\ displayAverage
    /\ InactiveSet = AllPoints
    /\ averageData.curves = 0

\* C7: from a state that permits "min up", "min up" and then a "min down" that
\* stops after one decrement give back indexOfMinValue and the inactive set.
C7_MinUpMinDownRoundTrip ==
    min_up_permitted(self) =>
        LET up == move(self, "min up")
            scan == min_down_scan(up.self, get_histogram_data(up.self),
                                  up.self.histogramData.indexOfMinValue)
            down == move(up.self, "min down")
        IN  (up.raised = "none" /\ min_down_permitted(up.self) /\ scan.steps = 1) =>
                /\ down.raised = "none"
                /\ down.self.histogramData.indexOfMinValue
                     = histogramData.indexOfMinValue
                /\ Range(down.self.inactiveDataPoints) = InactiveSet

\* The moves of C8, refused as the claim states them.
Refused(direction) ==
    CASE direction = "min up" ->
           histogramData.indexOfMinValue >= histogramData.indexOfMaxValue - 1
      [] direction = "max down" ->
           histogramData.indexOfMaxValue <= histogramData.indexOfMinValue + 1
      [] direction = "min down" -> histogramData.indexOfMinValue = 0
      [] direction = "max up" -> histogramData.indexOfMaxValue = numberOfBins

\* C8: a move requested outside its guard returns normally and leaves the
\* inactive set and histogramData as they were.
C8_RefusedMoveIsNoOp ==
    \A direction \in Directions :
        Refused(direction) =>
            LET r == restrict_histogram(self, direction)
            IN  /\ r.raised = "none"
                /\ Range(r.self.inactiveDataPoints) = InactiveSet
                /\ r.self.histogramData = histogramData

\* A move was refused while some point was inactive.
C8_Witness ==
    /\ call.op \in Directions
    /\ call.arg = "refused"
    /\ ReturnedNormally
    /\ inactiveDataPoints # <<>>

\* The canonical ids of the points whose channel value satisfies P.
PointsWith(P(_)) ==
    {k - 1 : k \in {i \in 1..Len(sourceData) : isfinite(sourceData[i]) /\ P(sourceData[i])}}

\* C9: a permitted "min up" adds exactly the points whose value is below the
\* new lower edge and removes none; a permitted "max down" adds exactly the
\* points whose value is above the new upper edge.
C9_NarrowingDeactivatesBeyondEdge ==
    /\ min_up_permitted(self) =>
         LET r == restrict_histogram(self, "min up")
             newMin == histogramData.binValues[histogramData.indexOfMinValue + 2]
         IN  Range(r.self.inactiveDataPoints)
               = InactiveSet \cup PointsWith(LAMBDA v : Scaled(self, v) < newMin)
    /\ max_down_permitted(self) =>
         LET r == restrict_histogram(self, "max down")
             newMax == histogramData.binValues[histogramData.indexOfMaxValue]
         IN  Range(r.self.inactiveDataPoints)
               = InactiveSet \cup PointsWith(LAMBDA v : Scaled(self, v) > newMax)

\* C10: after a permitted "min up" and its refresh indexOfMinValue is one more
\* than before.
C10_MinUpAdvancesByOne ==
    min_up_permitted(self) =>
        move(self, "min up").self.histogramData.indexOfMinValue
          = histogramData.indexOfMinValue + 1

\* The canonical ids of the points whose finite value lies in bin j of
\* binValues, [binValues[j], binValues[j + 1]).
PointsInBin(j) ==
    PointsWith(LAMBDA v : /\ Scaled(self, v) >= histogramData.binValues[j + 1]
                          /\ Scaled(self, v) < histogramData.binValues[j + 2])

\* The bins below indexOfMinValue that hold a point.
FilledBinsBelowMin ==
    {j \in 0..(histogramData.indexOfMinValue - 1) : PointsInBin(j) # {}}

\* C11: a permitted "min down" returns normally and reactivates exactly the
\* inactive points of the first bin below indexOfMinValue that holds a point,
\* and nothing when every bin down to index 0 is empty.
C11_MinDownReactivatesFirstFilledBin ==
    min_down_permitted(self) =>
        LET r == restrict_histogram(self, "min down")
            reactivated ==
                IF FilledBinsBelowMin = {} THEN {}
                ELSE LET j == CHOOSE a \in FilledBinsBelowMin :
                                  \A b \in FilledBinsBelowMin : a >= b
                     IN  PointsInBin(j) \cap InactiveSet
        IN  /\ r.raised = "none"
            /\ Range(r.self.inactiveDataPoints) = InactiveSet \ reactivated

HasNegativeX(curve) == \E i \in 1..Len(curve.x) : curve.x[i] < 0

\* C12: with an active curve that has no sample of x < 0 the average is
\* computed without an exception: the right branch is averaged, and the left
\* branch is averaged when another active curve has a sample of x < 0.
C12_NoZeroCrossingDoesNotAbort ==
    LET active == get_active_curve_data(self)
        r == calculate_average(self)
    IN  (/\ active.raised = "none"
         /\ \E c \in 1..Len(active.activeCurves) : ~HasNegativeX(active.activeCurves[c]))
        => /\ r.raised = "none"
           /\ Len(r.self.averageData.rightYValues) = numberOfDataPoints
           /\ (\E c \in 1..Len(active.activeCurves) : HasNegativeX(active.activeCurves[c]))
                => Len(r.self.averageData.leftYValues) = numberOfDataPoints

\* The toggle calls that name a linear index outside [0, m * n).
UnknownPointInputs ==
    {newPoints \in UNION {[1..k -> (0 - NumPoints(self) - 1)..NumPoints(self)] :
                            k \in 1..MaxToggle} :
        \E k \in 1..Len(newPoints) : newPoints[k] \notin AllPoints}

\* C13: a toggle call that names a linear index outside [0, m * n), a negative
\* one included, raises and leaves inactiveDataPoints as it was.
C13_UnknownPointIsRefused ==
    \A newPoints \in UnknownPointInputs :
        LET add == add_inactive_data_points(self, newPoints)
            remove == remove_inactive_data_points(self, newPoints)
        IN  /\ add.raised # "none"
            /\ add.self.inactiveDataPoints = inactiveDataPoints
            /\ remove.raised # "none"
            /\ remove.self.inactiveDataPoints = inactiveDataPoints

\* The x and y values load_bam_ibw_data_files passes to split_curve.
curveValidXValues == valid_values(importer.dataFiles[1].x)
curveValidYValues == valid_values(importer.dataFiles[1].y)

Loaded == call.op = "load_bam_ibw_data_files"

\* C14: for x and y of one length of at least 2 samples, split_curve returns
\* at the first index k of the maximum of x the approach (x[0:k], y[0:k]) and
\* the retract (reverse(x[k:]), reverse(y[k:])); approach followed by the
\* reversed retract is the input; the import holds exactly these curves; and
\* x = [0,1,2,3,2,1,0] gives approach x = [0,1,2], retract x = [0,1,2,3].
C14_SplitCurve ==
    LET x == curveValidXValues
        y == curveValidYValues
        r == split_curve(x, y)
        example == split_curve(<<0, 1, 2, 3, 2, 1, 0>>, <<0, 1, 2, 3, 2, 1, 0>>)
    IN  /\ (Len(x) = Len(y) /\ Len(x) >= 2) =>
              /\ r.raised = "none"
              /\ \E k \in 0..(Len(x) - 1) :
                    /\ x[k + 1] = SeqMax(x)
                    /\ \A j \in 1..k : x[j] < x[k + 1]
                    /\ r.approachCurve = [x |-> SubSeq(x, 1, k), y |-> SubSeq(y, 1, k)]
                    /\ r.retractCurve =
                         [x |-> [i \in 1..(Len(x) - k) |-> x[Len(x) + 1 - i]],
                          y |-> [i \in 1..(Len(y) - k) |-> y[Len(y) + 1 - i]]]
              /\ r.approachCurve.x \o np_flip(r.retractCurve.x) = x
              /\ r.approachCurve.y \o np_flip(r.retractCurve.y) = y
              /\ Loaded =>
                    /\ ReturnedNormally
                    /\ importer.approachCurves = <<r.approachCurve>>
                    /\ importer.retractCurves = <<r.retractCurve>>
        /\ example.raised = "none"
        /\ example.approachCurve.x = <<0, 1, 2>>
        /\ example.retractCurve.x = <<0, 1, 2, 3>>

\* A curve whose maximum of x is its first sample was imported: the approach
\* is empty and the retract holds every sample.
C14_Witness ==
    /\ Loaded
    /\ ReturnedNormally
    /\ Len(curveValidXValues) = Len(curveValidYValues)
    /\ Len(curveValidXValues) >= 2
    /\ importer.approachCurves[1].x = <<>>
    /\ Len(importer.retractCurves[1].x) = Len(curveValidXValues)

\* C15: split_curve raises for x and y of fewer than 2 samples or of different
\* lengths, as the import passes them after it dropped the nan values of x and
\* of y, and the import then holds no curve of them.
C15_MalformedCurveIsRefused ==
    (Len(curveValidXValues) < 2 \/ Len(curveValidXValues) # Len(curveValidYValues)) =>
        /\ split_curve(curveValidXValues, curveValidYValues).raised # "none"
        /\ Loaded => (~ReturnedNormally /\ importer.approachCurves = <<>>)

\* The indices of the lines that are not red.
MarkedInactive(lines) == {k \in AllPoints : lines[k + 1] # "red"}

\* C16 as stated: the heatmap array has nan at the linear position i exactly
\* when the canonical id of i is inactive, the other cells keep the value of
\* the channel, and update_lines marks the same set of points.
C16_NanIffInactive ==
    LET heat == get_active_heatmap_data(self)
    IN  /\ heat.raised = "none"
        /\ \A i \in AllPoints :
              /\ heat.data[i + 1] = NaN <=> toCanonical(mappedIndices, i) \in InactiveSet
              /\ toCanonical(mappedIndices, i) \notin InactiveSet =>
                    heat.data[i + 1] = sourceData[toCanonical(mappedIndices, i) + 1]
        /\ MarkedInactive(update_lines(self).displayedLines) = InactiveSet

\* C16 amended: the heatmap array has nan at the linear position of every
\* inactive id and the value of the channel, finite or not, at every other
\* position; update_lines marks exactly the inactive ids, and the lines shown
\* after a handler that returned normally are marked so.
C16_HeatmapMask ==
    LET heat == get_active_heatmap_data(self)
    IN  /\ heat.raised = "none"
        /\ \A i \in AllPoints :
              heat.data[i + 1] =
                  IF toCanonical(mappedIndices, i) \in InactiveSet THEN NaN
                  ELSE sourceData[toCanonical(mappedIndices, i) + 1]
        /\ MarkedInactive(update_lines(self).displayedLines) = InactiveSet
        /\ ReturnedNormally => MarkedInactive(displayedLines) = InactiveSet

\* Under an orientation in which linear indices are not the canonical ids a
\* point is inactive and an active point has a non-finite channel value.
C16_Witness ==
    /\ ReturnedNormally
    /\ InactiveSet # {}
    /\ get_active_heatmap_data(self).masked # InactiveSet
    /\ \E id \in AllPoints \ InactiveSet : sourceData[id + 1] = NaN

\* C17: the engine holds no or one set of average artifacts, two entries in
\* averageData["curves"]; update_average leaves at most the one set it draws,
\* none when every point is inactive or the computation raises, and no
\* artifact is held while every point is inactive.
C17_AtMostOneAverage ==
    /\ averageData.curves \in {0, 2}
    /\ InactiveSet = AllPoints => averageData.curves = 0
    /\ LET r == update_average(self)
       IN  /\ r.self.averageData.curves \in {0, 2}
           /\ (r.early \/ r.raised # "none") => r.self.averageData.curves = 0
           /\ InactiveSet = AllPoints => r.early

\* The average was drawn again after a point was deactivated while the
\* artifacts of the previous average were held.
C17_Witness ==
    /\ call.op = "add_inactive_data_points"
    /\ call.arg = "new"
    /\ ReturnedNormally
    /\ displayAverage
    /\ averageData.curves = 2
    /\ Len(averageData.activeCurves) < NumPoints(self)

\* The samples in which the y values of two curves differ.
DifferingSamples(a, b) == {j \in 1..Len(a.y) : a.y[j] # b.y[j]}

C19_ScansStayInBounds ==
    /\ Len(histogramData.binValues) = numberOfBins + 1
    /\ min_down_permitted(self) =>
          LET scan == min_down_scan(self, get_histogram_data(self),
                                    histogramData.indexOfMinValue)
          IN  /\ scan.raised = "none"
              /\ scan.steps >= 1
              /\ scan.steps <= histogramData.indexOfMinValue
              /\ scan.index = histogramData.indexOfMinValue - scan.steps
              /\ histogramData.indexOfMinValue <= numberOfBins
              /\ scan.index >= 0
    /\ max_up_permitted(self) =>
          LET scan == max_up_scan(self, get_histogram_data(self),
                                  histogramData.indexOfMaxValue)
          IN  /\ scan.raised = "none"
              /\ scan.steps >= 1
              /\ scan.steps <= numberOfBins - histogramData.indexOfMaxValue
              /\ scan.index = histogramData.indexOfMaxValue + scan.steps
              /\ histogramData.indexOfMaxValue >= 0
              /\ scan.index <= numberOfBins

\* A threshold move was made and the scan of "max up" passes an empty bin
\* from the state it left.
C19_Witness ==
    /\ MoveRefreshed
    /\ call.arg = "permitted"
    /\ max_up_permitted(self)
    /\ max_up_scan(self, get_histogram_data(self),
                   histogramData.indexOfMaxValue).steps >= 2

\* The state with the curve of the point id replaced.
WithCurve(id, curve) == [self EXCEPT !.correctedCurves[id + 1] = curve]

\* Two runs of _calculate_average raise alike and store the same averageData.
SameResult(a, b) ==
    /\ a.raised = b.raised
    /\ a.self.averageData = b.self.averageData

\* The state s yields the active curve data given and, where the average is
\* displayed, the result of _calculate_average given.
SameAverage(active, average, s) ==
    /\ get_active_curve_data(s) = active
    /\ s.displayAverage => SameResult(average, calculate_average(s))

\* C20: another curve at an inactive point changes neither the active curves,
\* xMin and yMax that _get_active_curve_data returns nor, in the states where
\* the average is displayed, what _calculate_average stores or raises.
C20_AverageIgnoresInactiveCurves ==
    \A id \in InactiveSet \cap AllPoints :
        \A curve \in Curves :
            SameAverage(get_active_curve_data(self), calculate_average(self),
                        WithCurve(id, curve))

\* The average of the active curves is drawn while a point is inactive whose
\* curve alone would end the computation with an exception.
C20_Witness ==
    /\ displayAverage
    /\ ReturnedNormally
    /\ averageData.curves = 2
    /\ \E id \in InactiveSet : last_zero_crossing(correctedCurves[id + 1]).raised # "none"

\* The curve has a sample of x < 0 and the last one is its first sample: the
\* segment curve[:lastZeroCrossing] is empty.
EmptyPreSplit(curve) ==
    /\ last_zero_crossing(curve).raised = "none"
    /\ last_zero_crossing(curve).value = 0

\* The curve has samples before its last sample of x < 0.
HasPreSplit(curve) ==
    /\ last_zero_crossing(curve).raised = "none"
    /\ last_zero_crossing(curve).value > 0

\* C21: with an active curve whose segment before the last sample of x < 0 is
\* empty, and every active curve having a sample of x < 0, the average is
\* computed without an exception: the right branch is averaged, and the left
\* branch is averaged when another active curve has samples in that segment.
C21_EmptyBranchIsTolerated ==
    LET active == get_active_curve_data(self)
        r == calculate_average(self)
    IN  (/\ active.raised = "none"
         /\ \A c \in 1..Len(active.activeCurves) : HasNegativeX(active.activeCurves[c])
         /\ \E c \in 1..Len(active.activeCurves) : EmptyPreSplit(active.activeCurves[c]))
        => /\ r.raised = "none"
           /\ Len(r.self.averageData.rightYValues) = numberOfDataPoints
           /\ (\E c \in 1..Len(active.activeCurves) : HasPreSplit(active.activeCurves[c]))
                => Len(r.self.averageData.leftYValues) = numberOfDataPoints

\* The list holds canonical ids of the grid, each at most once.
CanonicalList(s, list) ==
    /\ Range(list) \subseteq 0..(NumPoints(s) - 1)
    /\ Len(list) <= NumPoints(s)

\* The toggle calls that name two linear indices, the same one twice included.
PairInputs == {<<i, j>> : i, j \in AllPoints}

\* C22: every element of inactiveDataPoints is a canonical id in [0, m * n)
\* and the list has at most m * n elements, in every state that toggles of one
\* point and threshold moves reach, whether they returned or raised, and after
\* every toggle call of two linear indices in [0, m * n) made from it.
C22_InactiveIdsInRange ==
    /\ CanonicalList(self, inactiveDataPoints)
    /\ \A newPoints \in PairInputs :
          /\ CanonicalList(self,
                add_inactive_data_points(self, newPoints).self.inactiveDataPoints)
          /\ CanonicalList(self,
                remove_inactive_data_points(self, newPoints).self.inactiveDataPoints)

\* A permitted threshold move left all points but one inactive on a grid of
\* more than two points.
C22_Witness ==
    /\ MoveRefreshed
    /\ call.arg = "permitted"
    /\ NumPoints(self) > 2
    /\ Len(inactiveDataPoints) = NumPoints(self) - 1

\* The narrowing moves.
NarrowingMoves == {"min up", "max down"}

\* C23: when the last handler returned normally, so that plot_histogram
\* computed the indices from the current registry, and a point is active, a
\* permitted "min up" or "max down" leaves a point active.
C23_NarrowingKeepsAPointActive ==
    (ReturnedNormally /\ InactiveSet # AllPoints) =>
        \A direction \in NarrowingMoves :
            permitted(self, direction) =>
                Range(restrict_histogram(self, direction).self.inactiveDataPoints)
                  # AllPoints

\* C24: in every state that point toggles and threshold moves reach, the state
\* with every point inactive included, update_plots returns without an
\* exception and leaves indexOfMinValue and indexOfMaxValue within
\* [0, numberOfBins].
C24_RefreshNeverRaises ==
    LET r == update_plots(self)
    IN  /\ r.raised = "none"
        /\ r.self.histogramData.indexOfMinValue \in 0..numberOfBins
        /\ r.self.histogramData.indexOfMaxValue \in 0..numberOfBins

\* The arrays and the registry the views are derived from.
Stored(s) ==
    [data |-> s.data, sourceData |-> s.sourceData,
     mappedIndices |-> s.mappedIndices, inactiveDataPoints |-> s.inactiveDataPoints]

\* C25: _get_heatmap_data with _get_active_heatmap_data,
\* _get_active_histogram_data and the whole of update_plots leave the data and
\* the sourceData of the channel, mappedIndices and inactiveDataPoints as they
\* were; in every state the data of the channel is its sourceData in the
\* orientation of mappedIndices, no nan of an earlier redraw in it, so that
\* the heatmap shows the channel value of every active point.
C25_ViewDataIsReadOnly ==
    /\ Stored(get_active_heatmap_data(self).self) = Stored(self)
    /\ Stored(put_active_histogram_data(self)) = Stored(self)
    /\ Stored(update_plots(self).self) = Stored(self)
    /\ \A i \in AllPoints :
          /\ heatmapData.flat[i + 1] = sourceData[toCanonical(mappedIndices, i) + 1]
          /\ toCanonical(mappedIndices, i) \notin InactiveSet =>
                get_active_heatmap_data(self).data[i + 1]
                  = sourceData[toCanonical(mappedIndices, i) + 1]

\* A point that was masked in an earlier redraw was activated again, under an
\* orientation in which linear indices are not the canonical ids, while
\* another point stays inactive.
C25_Witness ==
    /\ call.op = "remove_inactive_data_points"
    /\ call.arg = "new"
    /\ ReturnedNormally
    /\ InactiveSet # {}
    /\ get_active_heatmap_data(self).masked # InactiveSet

====
